---- MODULE Spec2Model ----
(***************************************************************************)
(* A model of percy's virtual-node materialisation (virtual-node/src/      *)
(* lib.rs) and of its patch application engine (virtual-dom-rs/src/patch/  *)
(* apply_patches.rs) over an explicit heap of live document nodes, of the  *)
(* serialisation of virtual nodes to markup (impl fmt::Display) and of the *)
(* template parser's closing tags (html-macro/src/parser/close_tag.rs).    *)
(***************************************************************************)
EXTENDS Integers, Sequences, FiniteSets, TLC

VARIABLES
    dom,                    \* the host document's heap: node id -> live node
    root_node,              \* the live node handed to patch() / last created
    vcur,                   \* the virtual tree the live document was built from
    vnew,                   \* the virtual tree of the running update cycle
    from_diff,              \* TRUE when the patch list is diff(vcur, vnew)
    patches,                \* the patch list of the running patch() call
    pi,                     \* position of the next patch of the list
    element_nodes_to_patch, \* patch(): HashMap<usize, Element>
    text_nodes_to_patch,    \* patch(): HashMap<usize, Text>
    nodes_to_find,          \* patch(): HashSet<usize> left by find_nodes
    pc,                     \* where the process stands
    ELEM_UNIQUE_ID,         \* the process-wide identifier counter
    build,                  \* "debug" (overflow checks on) or "release"
    active_closures,        \* the attached-handler registry
    created,                \* the CreatedNode of the last create_dom_node call
    issued,                 \* history: identifiers handed out since Init
    prior,                  \* history: identifiers 1..prior were handed out before Init
    wanted,                 \* history: the index set find_nodes was started with
    formatter,              \* Display: the pieces written to the fmt::Formatter
    markup,                 \* Display: the String that to_string() returned
    parent_stack,           \* HtmlParser: the open tags, innermost last
    tokens,                 \* HtmlParser: the token streams pushed so far
    close_tag               \* history: the name of the closing tag parsed last

vars == <<dom, root_node, vcur, vnew, from_diff, patches, pi,
          element_nodes_to_patch, text_nodes_to_patch, nodes_to_find, pc,
          ELEM_UNIQUE_ID, build, active_closures, created, issued, prior,
          wanted, formatter, markup, parent_stack, tokens, close_tag>>

\* the state of the server-side rendering and of the template parser
front == <<formatter, markup, parent_stack, tokens, close_tag>>

----------------------------------------------------------------------------
(* Bounds of the model *)

\* most children of one element of the generated virtual trees
MaxKids == 3
\* most patches in a hand-supplied patch list
MaxPatches == 2
\* largest structural index a hand-supplied patch addresses
MaxPatchIdx == 2
\* largest structural index looked for in a traversal of its own
MaxIdx == 4
\* identifiers still free below the top of the counter's range in the
\* initial states that stand for a long-running process
HeadRoom == 1
\* most identifiers handed out in one behaviour
MaxIssued == 4

\* A u32 is kept as two decimal limbs, value = hi * Limb + lo, since the
\* identifier counter runs over the whole 32-bit range
Limb == 100000
\* u32::MAX = 4294967295 = U32MaxHi * Limb + U32MaxLo
U32MaxHi == 42949
U32MaxLo == 67295

----------------------------------------------------------------------------
(* HashMap / HashSet / Vec helpers *)

EmptyMap == [x \in {} |-> ""]

MapSet(m, k, v) == [x \in (DOMAIN m) \cup {k} |-> IF x = k THEN v ELSE m[x]]

\* HashMap::extend: entries of b win
MapExtend(a, b) ==
    [x \in (DOMAIN a) \cup (DOMAIN b) |-> IF x \in DOMAIN b THEN b[x] ELSE a[x]]

Range(f) == {f[x] : x \in DOMAIN f}

SeqsUpTo(S, n) == UNION {[1..k -> S] : k \in 0..n}

RemoveAt(s, i) == SubSeq(s, 1, i - 1) \o SubSeq(s, i + 1, Len(s))

IndexOf(s, x) == CHOOSE i \in 1..Len(s) : s[i] = x

Min(a, b) == IF a < b THEN a ELSE b

----------------------------------------------------------------------------
(* Virtual nodes *)

VText(s) ==
    [kind |-> "Text", tag |-> "", props |-> EmptyMap, events |-> EmptyMap,
     children |-> <<>>, text |-> s]

VElement(tag, props, events, children) ==
    [kind |-> "Element", tag |-> tag, props |-> props, events |-> events,
     children |-> children, text |-> ""]

RECURSIVE VSize(_)
\* number of structural index slots a virtual subtree takes
VSize(v) ==
    IF v.kind = "Text" THEN 1
    ELSE LET RECURSIVE Sum(_)
             Sum(i) == IF i > Len(v.children) THEN 0
                       ELSE VSize(v.children[i]) + Sum(i + 1)
         IN 1 + Sum(1)

RECURSIVE VNodeAt(_, _)
\* the virtual node at depth-first pre-order index i of v ("none" past the end)
VNodeAt(v, i) ==
    IF i = 0 THEN v
    ELSE IF v.kind = "Text" \/ i >= VSize(v) THEN [kind |-> "none"]
    ELSE LET RECURSIVE Find(_, _)
             Find(j, base) ==
                 IF j > Len(v.children) THEN [kind |-> "none"]
                 ELSE IF i < base + VSize(v.children[j])
                      THEN VNodeAt(v.children[j], i - base)
                      ELSE Find(j + 1, base + VSize(v.children[j]))
         IN Find(1, 1)

----------------------------------------------------------------------------
(* The host document: primitives of web_sys used by the code *)

NewNode(type, tag, text, src) ==
    [type |-> type, tag |-> tag, attrs |-> EmptyMap, text |-> text,
     children |-> <<>>, parent |-> 0, listeners |-> {}, src |-> src]

InitDom == <<NewNode("element", "body", "", -1)>>

\* the element the application mounts its root under: the one node of the
\* initial heap
Body == Len(InitDom)

set_attribute(d, el, name, value) ==
    [d EXCEPT ![el].attrs = MapSet(@, name, value)]

\* Node.appendChild of a node that has no parent yet
append_child(d, parent, child) ==
    [d EXCEPT ![parent].children = Append(@, child), ![child].parent = parent]

\* Node.removeChild of a child of parent
remove_child(d, parent, child) ==
    [d EXCEPT ![parent].children = RemoveAt(@, IndexOf(@, child)),
              ![child].parent = 0]

\* ChildNode.replaceWith: nothing happens when the node has no parent
replace_with_with_node_1(d, node, new) ==
    LET p == d[node].parent IN
    IF p = 0 THEN d
    ELSE [d EXCEPT ![p].children = [@ EXCEPT ![IndexOf(@, node)] = new],
                   ![new].parent = p,
                   ![node].parent = 0]

set_node_value(d, node, text) == [d EXCEPT ![node].text = text]

----------------------------------------------------------------------------
(* u32 arithmetic and formatting *)

U32(hi, lo) == [hi |-> hi, lo |-> lo]

U32Max == U32(U32MaxHi, U32MaxLo)

Succ32(u) == IF u.lo = Limb - 1 THEN U32(u.hi + 1, 0) ELSE U32(u.hi, u.lo + 1)

Less32(u, v) == u.hi < v.hi \/ (u.hi = v.hi /\ u.lo < v.lo)

\* u32::to_string: the decimal digits, no leading zeros
to_string(u) ==
    IF u.hi = 0 THEN ToString(u.lo)
    ELSE ToString(u.hi) \o
         (CASE u.lo < 10 -> "0000"
            [] u.lo < 100 -> "000"
            [] u.lo < 1000 -> "00"
            [] u.lo < 10000 -> "0"
            [] OTHER -> "") \o ToString(u.lo)

----------------------------------------------------------------------------
(* virtual-node/src/lib.rs: materialisation *)

\* *elem_unique_id += 1 on a u32: a debug build panics on overflow, a release
\* build wraps around to 0
create_unique_identifier(uid) ==
    IF uid = U32Max
    THEN IF build = "debug"
         THEN [value |-> uid, panic |-> TRUE]
         ELSE [value |-> U32(0, 0), panic |-> FALSE]
    ELSE [value |-> Succ32(uid), panic |-> FALSE]

\* &onevent[2..] : "onclick" -> "click"
EventName(onevent) ==
    CASE onevent = "onclick" -> "click"
      [] onevent = "oninput" -> "input"
      [] OTHER -> onevent

\* the Vec<DynClosure> pushed for one element, as a bag (closure -> count):
\* one Rc::clone per entry of the handler map, in the map's iteration order
ClosureVec(events) ==
    [c \in Range(events) |-> Cardinality({e \in DOMAIN events : events[e] = c})]

BagCount(b) ==
    LET RECURSIVE Sum(_)
        Sum(S) == IF S = {} THEN 0
                  ELSE LET x == CHOOSE y \in S : TRUE IN b[x] + Sum(S \ {x})
    IN Sum(DOMAIN b)

\* VirtualNodeText::create_text_node, the node allocated at the end of the heap
create_text_node(d, v, src) == Append(d, NewNode("text", "", v.text, src))

\* document.create_comment("ptns")
create_comment(d) == Append(d, NewNode("comment", "", "ptns", -1))

\* `if previous_node_was_text` before a Text child is appended
SeparatorNeeded(previous_node_was_text) == previous_node_was_text

\* a loop that forgets to reset the flag after an Element child
PreviousAfterElement_Kept == TRUE

\* the value previous_node_was_text takes after an Element child
PreviousAfterElement == FALSE

\* `if self.events.0.len() > 0`
CarriesHandlers(v) == DOMAIN v.events # {}

\* the element after create_element, the props loop and the events block
ElementShell(d, v, src, unique_id) ==
    LET d1 == Append(d, NewNode("element", v.tag, "", src))
        el == Len(d1)
        d2 == [d1 EXCEPT ![el].attrs = MapExtend(@, v.props)]
    IN  IF ~CarriesHandlers(v) THEN d2
        ELSE [set_attribute(d2, el, "data-vdom-id", to_string(unique_id))
                EXCEPT ![el].listeners =
                    {<<EventName(e), v.events[e]>> : e \in DOMAIN v.events}]

\* closures.insert(unique_id, vec![]) followed by the pushes
OwnClosures(v, unique_id) ==
    IF CarriesHandlers(v) THEN (unique_id :> ClosureVec(v.events)) ELSE EmptyMap

\* a loop that leaves the closures of a child element behind
ExtendClosures_Dropped(closures, child_closures) == closures

\* closures.extend(child.closures)
ExtendClosures(closures, child_closures) == MapExtend(closures, child_closures)

RECURSIVE create_element_node(_, _, _, _)
RECURSIVE create_children(_, _, _, _, _)

\* the children loop: R is the CreatedElement being built, with the heap and
\* the counter threaded through; src numbers the virtual node about to be built
create_children(kids, i, previous_node_was_text, R, src) ==
    IF R.panic \/ i > Len(kids) THEN R
    ELSE LET child == kids[i] IN
         IF child.kind = "Text"
         THEN LET d1 == IF SeparatorNeeded(previous_node_was_text)
                        THEN LET dc == create_comment(R.dom)
                             IN append_child(dc, R.node, Len(dc))
                        ELSE R.dom
                  d2 == create_text_node(d1, child, src)
              IN create_children(kids, i + 1, TRUE,
                     [R EXCEPT !.dom = append_child(d2, R.node, Len(d2))],
                     src + 1)
         ELSE LET c == create_element_node(child, R.dom, R.uid, src)
              IN IF c.panic
                 THEN [c EXCEPT !.node = R.node, !.ids = R.ids \o c.ids]
                 ELSE create_children(kids, i + 1, PreviousAfterElement,
                          [dom |-> append_child(c.dom, R.node, c.node),
                           uid |-> c.uid, panic |-> FALSE, node |-> R.node,
                           closures |-> ExtendClosures(R.closures, c.closures),
                           ids |-> R.ids \o c.ids],
                          src + VSize(child))

\* VirtualNodeElement::create_element_node
create_element_node(v, d, uid, src) ==
    LET idr == IF CarriesHandlers(v) THEN create_unique_identifier(uid)
               ELSE [value |-> uid, panic |-> FALSE]
        d1 == ElementShell(d, v, src, idr.value)
    IN  IF idr.panic
        THEN [dom |-> d, uid |-> uid, panic |-> TRUE, node |-> 0,
              closures |-> EmptyMap, ids |-> <<>>]
        ELSE create_children(v.children, 1, FALSE,
                 [dom |-> d1, uid |-> idr.value, panic |-> FALSE,
                  node |-> Len(d1),
                  closures |-> OwnClosures(v, idr.value),
                  ids |-> IF CarriesHandlers(v) THEN <<idr.value>> ELSE <<>>],
                 src + 1)

\* VirtualNode::create_dom_node
create_dom_node(v, d, uid) ==
    IF v.kind = "Text"
    THEN LET d1 == create_text_node(d, v, 0)
         IN [dom |-> d1, uid |-> uid, panic |-> FALSE, node |-> Len(d1),
             closures |-> EmptyMap, ids |-> <<>>]
    ELSE create_element_node(v, d, uid, 0)

----------------------------------------------------------------------------
(* virtual-dom-rs/src/patch/apply_patches.rs: the live traversal *)

\* the text-child arm of the child loop: the node is recorded, the set is kept
TextChildFound(F, node) ==
    IF F.cur_node_idx \in F.nodes_to_find
    THEN [F EXCEPT !.text_nodes_to_patch = MapSet(@, F.cur_node_idx, node)]
    ELSE F

\* a traversal that counts separator comments as index slots
CommentChildStep_Counted(F) == [F EXCEPT !.cur_node_idx = @ + 1]

\* what the child loop does for a comment child: the index is not advanced
CommentChildStep(F) == F

\* `if nodes_to_find.get(&cur_node_idx).is_some() { match root_node.node_type() .. }`
RootFound(d, root, F) ==
    IF F.cur_node_idx \notin F.nodes_to_find THEN F
    ELSE LET F1 == [F EXCEPT !.nodes_to_find = @ \ {F.cur_node_idx}] IN
         CASE d[root].type = "element" ->
                [F1 EXCEPT !.element_nodes_to_patch = MapSet(@, F.cur_node_idx, root)]
           [] d[root].type = "text" ->
                [F1 EXCEPT !.text_nodes_to_patch = MapSet(@, F.cur_node_idx, root)]
           [] OTHER -> [F EXCEPT !.panic = TRUE]

RECURSIVE find_nodes(_, _, _)
RECURSIVE find_children(_, _, _, _)

\* `for i in 0..child_node_count` over the children read at entry
find_children(d, children, i, F) ==
    IF F.panic \/ i > Len(children) THEN F
    ELSE LET node == children[i] IN
         CASE d[node].type = "element" ->
                find_children(d, children, i + 1, find_nodes(d, node, F))
           [] d[node].type = "text" ->
                find_children(d, children, i + 1,
                    [TextChildFound(F, node) EXCEPT !.cur_node_idx = @ + 1])
           [] OTHER ->
                find_children(d, children, i + 1, CommentChildStep(F))

\* find_nodes: F holds cur_node_idx, nodes_to_find and the two target maps
find_nodes(d, root, F) ==
    IF F.nodes_to_find = {} THEN F
    ELSE LET F1 == RootFound(d, root, F) IN
         IF F1.panic THEN F1
         ELSE find_children(d, d[root].children, 1,
                  [F1 EXCEPT !.cur_node_idx = @ + 1])

FindStart(indices) ==
    [cur_node_idx |-> 0, nodes_to_find |-> indices,
     element_nodes_to_patch |-> EmptyMap, text_nodes_to_patch |-> EmptyMap,
     panic |-> FALSE]

----------------------------------------------------------------------------
(* Patches *)

BasePatch(kind, node_idx) ==
    [kind |-> kind, node_idx |-> node_idx, attributes |-> EmptyMap,
     names |-> {}, node |-> VText(""), nodes |-> <<>>, num |-> 0]

AddAttributes(node_idx, attributes) ==
    [BasePatch("AddAttributes", node_idx) EXCEPT !.attributes = attributes]

RemoveAttributes(node_idx, names) ==
    [BasePatch("RemoveAttributes", node_idx) EXCEPT !.names = names]

Replace(node_idx, node) ==
    [BasePatch("Replace", node_idx) EXCEPT !.node = node]

AppendChildren(node_idx, nodes) ==
    [BasePatch("AppendChildren", node_idx) EXCEPT !.nodes = nodes]

TruncateChildren(node_idx, num_children_remaining) ==
    [BasePatch("TruncateChildren", node_idx) EXCEPT !.num = num_children_remaining]

ChangeText(node_idx, node) ==
    [BasePatch("ChangeText", node_idx) EXCEPT !.node = node]

----------------------------------------------------------------------------
(* virtual-dom-rs/src/patch/apply_patches.rs: applying one patch *)

\* the outcome of applying one patch: the heap, the counter, whether the
\* code panicked on the way, whether it hit unreachable!(), the identifiers
\* handed out
Applied(d, uid, ids) ==
    [dom |-> d, uid |-> uid, panic |-> FALSE, abort |-> FALSE, ids |-> ids]

\* `children.get(min(index, child_count - 1))` on the live child list, as a
\* position from 1; 0 when the list has no such item
ChildToTruncate(d, node, index, child_count) ==
    IF child_count = 0 THEN 0
    ELSE LET at == Min(index, child_count - 1) + 1
         IN IF at <= Len(d[node].children) THEN at ELSE 0

\* `if child.node_type() == Node::COMMENT_NODE { continue; }`
IsSeparator(d, child) == d[child].type = "comment"

RECURSIVE truncate_loop(_, _, _, _, _, _, _)
\* `for index in 0 as u32..child_count`: the range is fixed at entry (last),
\* child_count is the variable the body decrements
truncate_loop(d, node, index, last, child_count, found, num_children_remaining) ==
    IF index >= last THEN [dom |-> d, panic |-> FALSE]
    ELSE LET at == ChildToTruncate(d, node, index, child_count) IN
         IF at = 0 THEN [dom |-> d, panic |-> TRUE]
         ELSE LET child == d[node].children[at] IN
              IF IsSeparator(d, child)
              THEN truncate_loop(d, node, index + 1, last, child_count, found,
                                 num_children_remaining)
              ELSE IF found + 1 <= num_children_remaining
              THEN truncate_loop(d, node, index + 1, last, child_count,
                                 found + 1, num_children_remaining)
              ELSE truncate_loop(remove_child(d, node, child), node, index + 1,
                                 last, child_count - 1, found + 1,
                                 num_children_remaining)

RECURSIVE append_loop(_, _, _, _)
\* `for new_node in new_nodes`: A is the outcome so far
append_loop(parent, new_nodes, i, A) ==
    IF A.panic \/ i > Len(new_nodes) THEN A
    ELSE LET new_node == new_nodes[i] IN
         IF new_node.kind = "Text"
         THEN LET d1 == create_text_node(A.dom, new_node, 0)
              IN append_loop(parent, new_nodes, i + 1,
                     [A EXCEPT !.dom = append_child(d1, parent, Len(d1))])
         ELSE LET c == create_element_node(new_node, A.dom, A.uid, 0)
              IN IF c.panic
                 THEN [A EXCEPT !.dom = c.dom, !.panic = TRUE, !.ids = @ \o c.ids]
                 ELSE append_loop(parent, new_nodes, i + 1,
                          [A EXCEPT !.dom = append_child(c.dom, parent, c.node),
                                    !.uid = c.uid, !.ids = @ \o c.ids])

\* Patch::Replace on an element target
replace_element(d, uid, node, new_node) ==
    IF new_node.kind = "Text"
    THEN LET d1 == create_text_node(d, new_node, 0)
         IN Applied(replace_with_with_node_1(d1, node, Len(d1)), uid, <<>>)
    ELSE LET c == create_element_node(new_node, d, uid, 0)
         IN IF c.panic
            THEN [Applied(c.dom, uid, c.ids) EXCEPT !.panic = TRUE]
            ELSE Applied(replace_with_with_node_1(c.dom, node, c.node), c.uid, c.ids)

\* apply_element_patch; the CreatedElement of a Replace or of an
\* AppendChildren is a temporary: its closures are dropped with it
apply_element_patch(d, uid, node, patch) ==
    CASE patch.kind = "AddAttributes" ->
            Applied([d EXCEPT ![node].attrs = MapExtend(@, patch.attributes)], uid, <<>>)
      [] patch.kind = "RemoveAttributes" ->
            Applied([d EXCEPT ![node].attrs =
                        [x \in (DOMAIN @) \ patch.names |-> @[x]]], uid, <<>>)
      [] patch.kind = "Replace" -> replace_element(d, uid, node, patch.node)
      [] patch.kind = "TruncateChildren" ->
            LET t == truncate_loop(d, node, 0, Len(d[node].children),
                                   Len(d[node].children), 0, patch.num)
            IN [Applied(t.dom, uid, <<>>) EXCEPT !.panic = t.panic]
      [] patch.kind = "AppendChildren" ->
            append_loop(node, patch.nodes, 1, Applied(d, uid, <<>>))
      [] OTHER -> [Applied(d, uid, <<>>) EXCEPT !.abort = TRUE]

\* a text target that lets every other patch kind pass untouched
apply_text_patch_Lenient(d, uid, node, patch) ==
    IF patch.kind = "ChangeText"
    THEN Applied(set_node_value(d, node, patch.node.text), uid, <<>>)
    ELSE Applied(d, uid, <<>>)

\* apply_text_patch
apply_text_patch(d, uid, node, patch) ==
    IF patch.kind = "ChangeText"
    THEN Applied(set_node_value(d, node, patch.node.text), uid, <<>>)
    ELSE [Applied(d, uid, <<>>) EXCEPT !.abort = TRUE]

\* the body of `for patch in patches` in patch(): element targets are looked
\* up first, then text targets; no target is unreachable!()
apply_patch(d, uid, elements, texts, patch) ==
    IF patch.node_idx \in DOMAIN elements
    THEN apply_element_patch(d, uid, elements[patch.node_idx], patch)
    ELSE IF patch.node_idx \in DOMAIN texts
    THEN apply_text_patch(d, uid, texts[patch.node_idx], patch)
    ELSE [Applied(d, uid, <<>>) EXCEPT !.abort = TRUE]

\* `for patch in patches { nodes_to_find.insert(patch.node_idx()); }`
PatchIndices(ps) == {ps[i].node_idx : i \in 1..Len(ps)}

----------------------------------------------------------------------------
(* The diff engine (section 4.2 of the specification) *)

RECURSIVE diff_recursive(_, _, _)
RECURSIVE diff_children(_, _, _, _)

\* children pairwise by position; idx is the structural index of the old
\* child about to be compared
diff_children(old, new, i, idx) ==
    IF i > Min(Len(old.children), Len(new.children)) THEN <<>>
    ELSE diff_recursive(old.children[i], new.children[i], idx)
         \o diff_children(old, new, i + 1, idx + VSize(old.children[i]))

diff_recursive(old, new, idx) ==
    IF old.kind = "Text" /\ new.kind = "Text"
    THEN IF old.text # new.text THEN <<ChangeText(idx, new)>> ELSE <<>>
    ELSE IF old.kind # new.kind \/ old.tag # new.tag
    THEN <<Replace(idx, new)>>
    ELSE LET add == {k \in DOMAIN new.props :
                        k \notin DOMAIN old.props \/ old.props[k] # new.props[k]}
             rem == (DOMAIN old.props) \ (DOMAIN new.props)
             n_old == Len(old.children)
             n_new == Len(new.children)
         IN  (IF add # {}
              THEN <<AddAttributes(idx, [k \in add |-> new.props[k]])>> ELSE <<>>)
             \o (IF rem # {} THEN <<RemoveAttributes(idx, rem)>> ELSE <<>>)
             \o diff_children(old, new, 1, idx + 1)
             \o (IF n_new > n_old
                 THEN <<AppendChildren(idx, SubSeq(new.children, n_old + 1, n_new))>>
                 ELSE <<>>)
             \o (IF n_new < n_old THEN <<TruncateChildren(idx, n_new)>> ELSE <<>>)

diff(old, new) == diff_recursive(old, new, 0)

----------------------------------------------------------------------------
(* The virtual trees of the model *)

Click == ("onclick" :> "cb1")

ClickInput == ("onclick" :> "cb1") @@ ("oninput" :> "cb2")

SpanClick == VElement("span", EmptyMap, Click, <<>>)

Leaves == {VText("a"), VText("b"), SpanClick}

Flat == {VElement("div", EmptyMap, EmptyMap, k) : k \in SeqsUpTo(Leaves, MaxKids)}

PropMaps == {("id" :> "1"), ("id" :> "2"), ("id" :> "1") @@ ("class" :> "c")}

PropRoots ==
    {VElement("div", p, e, k) :
        p \in PropMaps, e \in {EmptyMap, ClickInput}, k \in {<<>>, <<VText("a")>>}}

Inner ==
    {VText("a"),
     VElement("div", EmptyMap, EmptyMap, <<VText("a")>>),
     VElement("div", EmptyMap, Click, <<VText("b"), VText("a")>>),
     VElement("div", EmptyMap, EmptyMap, <<SpanClick>>),
     VElement("span", EmptyMap, EmptyMap, <<SpanClick>>)}

Deep == {VElement("div", EmptyMap, EmptyMap, k) : k \in SeqsUpTo(Inner, 2)}

Trees == Leaves \cup Flat \cup PropRoots \cup Deep

----------------------------------------------------------------------------
(* The process *)

Init ==
    /\ dom = InitDom
    /\ root_node = 0
    /\ vcur = VText("")
    /\ vnew = VText("")
    /\ from_diff = FALSE
    /\ patches = <<>>
    /\ pi = 1
    /\ element_nodes_to_patch = EmptyMap
    /\ text_nodes_to_patch = EmptyMap
    /\ nodes_to_find = {}
    /\ pc = "start"
    /\ build \in {"debug", "release"}
    /\ ELEM_UNIQUE_ID \in {U32(0, 0), U32(U32MaxHi, U32MaxLo - HeadRoom)}
    /\ active_closures = EmptyMap
    /\ created = [node |-> 0, closures |-> EmptyMap]
    /\ issued = <<>>
    /\ prior = ELEM_UNIQUE_ID
    /\ wanted = {}
    /\ formatter = <<>>
    /\ markup = ""
    /\ parent_stack = <<>>
    /\ tokens = <<>>
    /\ close_tag = ""

\* a call of create_dom_node on a virtual tree, its result kept by the caller
Create(t) ==
    /\ pc \in {"start", "created"}
    /\ Len(issued) < MaxIssued
    /\ LET R == create_dom_node(t, InitDom, ELEM_UNIQUE_ID) IN
       /\ dom' = R.dom
       /\ ELEM_UNIQUE_ID' = R.uid
       /\ issued' = issued \o R.ids
       /\ root_node' = R.node
       /\ created' = [node |-> R.node, closures |-> R.closures]
       /\ pc' = IF R.panic THEN "panicked" ELSE "created"
    /\ vcur' = t
    /\ element_nodes_to_patch' = EmptyMap
    /\ text_nodes_to_patch' = EmptyMap
    /\ nodes_to_find' = {}
    /\ wanted' = {}
    /\ UNCHANGED <<vnew, from_diff, patches, pi, build, active_closures, prior>>
    /\ UNCHANGED front

\* a call of find_nodes on the created tree with a set of wanted indices
FindNodes(indices) ==
    /\ pc = "created"
    /\ LET F == find_nodes(dom, root_node, FindStart(indices)) IN
       /\ element_nodes_to_patch' = F.element_nodes_to_patch
       /\ text_nodes_to_patch' = F.text_nodes_to_patch
       /\ nodes_to_find' = F.nodes_to_find
       /\ pc' = IF F.panic THEN "panicked" ELSE "found"
    /\ wanted' = indices
    /\ UNCHANGED <<dom, root_node, vcur, vnew, from_diff, patches, pi,
                   ELEM_UNIQUE_ID, build, active_closures, created, issued, prior>>
    /\ UNCHANGED front

\* one materialisation and one traversal of its result
NextCreate ==
    \/ pc = "start" /\ \E t \in Trees : Create(t)
    \/ pc = "created" /\ \E indices \in SUBSET (0..MaxIdx) : FindNodes(indices)

SpecCreate == Init /\ [][NextCreate]_vars

\* materialisation after materialisation in one process
NextIds == \E t \in Trees : Create(t)

SpecIds == Init /\ [][NextIds]_vars

\* the application materialises its first tree, mounts it in the document and
\* keeps the returned closures in the attached-handler registry
Mount(t) ==
    /\ pc = "start"
    /\ LET R == create_dom_node(t, InitDom, ELEM_UNIQUE_ID) IN
       /\ dom' = IF R.panic THEN R.dom ELSE append_child(R.dom, Body, R.node)
       /\ ELEM_UNIQUE_ID' = R.uid
       /\ issued' = issued \o R.ids
       /\ root_node' = R.node
       /\ created' = [node |-> R.node, closures |-> R.closures]
       /\ active_closures' = R.closures
       /\ pc' = IF R.panic THEN "panicked" ELSE "mounted"
    /\ vcur' = t
    /\ UNCHANGED <<vnew, from_diff, patches, pi, element_nodes_to_patch,
                   text_nodes_to_patch, nodes_to_find, build, prior, wanted>>
    /\ UNCHANGED front

\* patch(), up to its second loop: the index set and the live traversal
PatchStart(ps) ==
    /\ pc = "mounted"
    /\ patches' = ps
    /\ pi' = 1
    /\ wanted' = PatchIndices(ps)
    /\ LET F == find_nodes(dom, root_node, FindStart(PatchIndices(ps))) IN
       /\ element_nodes_to_patch' = F.element_nodes_to_patch
       /\ text_nodes_to_patch' = F.text_nodes_to_patch
       /\ nodes_to_find' = F.nodes_to_find
       /\ pc' = IF F.panic THEN "panicked"
                ELSE IF ps = <<>> THEN "done" ELSE "patching"
    /\ UNCHANGED <<dom, root_node, vcur, ELEM_UNIQUE_ID, build, active_closures,
                   created, issued, prior>>
    /\ UNCHANGED front

\* an update cycle: the new tree is diffed against the current one and the
\* patch list is handed to patch()
Render(new) ==
    /\ PatchStart(diff(vcur, new))
    /\ vnew' = new
    /\ from_diff' = TRUE

\* patch() called with a patch list of the caller's own
PatchCall(ps) ==
    /\ PatchStart(ps)
    /\ from_diff' = FALSE
    /\ UNCHANGED vnew

\* patch(): one turn of `for patch in patches`; patch() returns nothing, so
\* the registry is left as it is
PatchStep ==
    /\ pc = "patching"
    /\ LET A == apply_patch(dom, ELEM_UNIQUE_ID, element_nodes_to_patch,
                            text_nodes_to_patch, patches[pi]) IN
       /\ dom' = A.dom
       /\ ELEM_UNIQUE_ID' = A.uid
       /\ issued' = issued \o A.ids
       /\ pi' = IF A.abort \/ A.panic THEN pi ELSE pi + 1
       /\ pc' = IF A.abort THEN "aborted"
                ELSE IF A.panic THEN "panicked"
                ELSE IF pi = Len(patches) THEN "done" ELSE "patching"
    /\ UNCHANGED <<root_node, vcur, vnew, from_diff, patches,
                   element_nodes_to_patch, text_nodes_to_patch, nodes_to_find,
                   build, active_closures, created, prior, wanted>>
    /\ UNCHANGED front

Next ==
    \/ pc = "start" /\ \E t \in Trees : Mount(t)
    \/ pc = "mounted" /\ \E new \in Trees : Render(new)
    \/ PatchStep

Spec == Init /\ [][Next]_vars

\* the documents and the patches of the hand-supplied patch lists
PatchDocs ==
    {VText("a"),
     VElement("div", EmptyMap, EmptyMap, <<VText("a")>>),
     VElement("div", EmptyMap, EmptyMap,
        <<SpanClick, SpanClick, VText("a"), VText("b")>>),
     VElement("div", EmptyMap, EmptyMap,
        <<VElement("div", EmptyMap, EmptyMap, <<VText("a")>>), VText("b")>>)}

PatchPool ==
    UNION {{Replace(i, SpanClick),
            Replace(i, VText("b")),
            AppendChildren(i, <<VText("b")>>),
            TruncateChildren(i, 1),
            ChangeText(i, VText("b")),
            AddAttributes(i, ("id" :> "1")),
            RemoveAttributes(i, {"id"})} : i \in 0..MaxPatchIdx}

PatchLists == SeqsUpTo(PatchPool, MaxPatches)

InitPatch == Init /\ ELEM_UNIQUE_ID = U32(0, 0)

NextPatch ==
    \/ pc = "start" /\ \E t \in PatchDocs : Mount(t)
    \/ pc = "mounted" /\ \E ps \in PatchLists : PatchCall(ps)
    \/ PatchStep

SpecPatch == InitPatch /\ [][NextPatch]_vars

----------------------------------------------------------------------------
(* virtual-node/src/lib.rs: serialisation to markup *)

SELF_CLOSING_TAGS ==
    {"area", "base", "br", "col", "hr", "img", "input", "link", "meta",
     "param", "command", "keygen", "source"}

\* an element that writes its closing marker whatever its tag
is_self_closing_Never(v) == FALSE

\* VirtualNodeElement::is_self_closing
is_self_closing(v) == v.tag \in SELF_CLOSING_TAGS

RECURSIVE Concat(_)
\* the String a formatter builds from the pieces written to it
Concat(pieces) ==
    IF pieces = <<>> THEN "" ELSE Head(pieces) \o Concat(Tail(pieces))

\* `for (prop, value) in self.props.iter()`: one ` prop="value"` per property,
\* in the order the HashMap iterates, which the caller does not control
fmt_props(props, order) ==
    LET present == SelectSeq(order, LAMBDA k : k \in DOMAIN props) IN
    [i \in 1..Len(present) |->
        " " \o present[i] \o "=\"" \o props[present[i]] \o "\""]

\* impl fmt::Display for VirtualNodeText
fmt_text(v) == <<v.text>>

RECURSIVE node_to_string(_, _)
RECURSIVE fmt_element(_, _)

\* impl fmt::Display for VirtualNodeElement: the pieces written, in order
fmt_element(v, order) ==
    <<"<" \o v.tag>>
    \o fmt_props(v.props, order)
    \o <<">">>
    \o [i \in 1..Len(v.children) |-> node_to_string(v.children[i], order)]
    \o (IF ~is_self_closing(v) THEN <<"</" \o v.tag \o ">">> ELSE <<>>)

\* impl fmt::Display for VirtualNode
fmt_node(v, order) ==
    IF v.kind = "Text" THEN fmt_text(v) ELSE fmt_element(v, order)

\* ToString::to_string of a virtual node
node_to_string(v, order) == Concat(fmt_node(v, order))

\* most children of one element of the serialised trees
MaxMarkupKids == 2

\* the orders a property map may iterate in
PropOrders == {<<"id", "class">>, <<"class", "id">>}

MarkupLeaves ==
    {VText("a"), VText("b"), SpanClick}
    \cup {VElement(tag, EmptyMap, EmptyMap, <<>>) :
            tag \in SELF_CLOSING_TAGS \cup {"div", "span"}}

MarkupKids ==
    {VText("a"),
     VElement("br", EmptyMap, EmptyMap, <<>>),
     VElement("div", EmptyMap, EmptyMap, <<>>),
     VElement("img", ("id" :> "1"), EmptyMap, <<>>),
     VElement("div", EmptyMap, EmptyMap, <<VText("b")>>)}

MarkupFlat ==
    {VElement(tag, p, EmptyMap, k) :
        tag \in {"div", "br"}, p \in PropMaps \cup {EmptyMap},
        k \in SeqsUpTo(MarkupKids, MaxMarkupKids)}

MarkupInner ==
    {VText("a"),
     VElement("div", EmptyMap, EmptyMap, <<VText("a"), VText("b")>>),
     VElement("br", EmptyMap, EmptyMap, <<VText("a")>>),
     VElement("input", EmptyMap, EmptyMap,
        <<VElement("div", EmptyMap, EmptyMap, <<>>)>>),
     VElement("div", ("id" :> "1") @@ ("class" :> "c"), EmptyMap,
        <<VElement("hr", EmptyMap, EmptyMap, <<>>)>>)}

MarkupDeep ==
    {VElement(tag, EmptyMap, EmptyMap, k) :
        tag \in {"span", "img"}, k \in SeqsUpTo(MarkupInner, MaxMarkupKids)}

MarkupTrees == MarkupLeaves \cup MarkupFlat \cup MarkupDeep

\* node.to_string() on a virtual tree, the server-side rendering
Serialise(t, order) ==
    /\ pc = "start"
    /\ formatter' = fmt_node(t, order)
    /\ markup' = node_to_string(t, order)
    /\ vcur' = t
    /\ pc' = "displayed"
    /\ UNCHANGED <<dom, root_node, vnew, from_diff, patches, pi,
                   element_nodes_to_patch, text_nodes_to_patch, nodes_to_find,
                   ELEM_UNIQUE_ID, build, active_closures, created, issued,
                   prior, wanted, parent_stack, tokens, close_tag>>

NextDisplay ==
    pc = "start" /\ \E t \in MarkupTrees, order \in PropOrders : Serialise(t, order)

SpecDisplay == Init /\ [][NextDisplay]_vars

----------------------------------------------------------------------------
(* html-macro/src/parser/close_tag.rs: closing tags of a template *)

\* deepest nesting of open tags
MaxOpen == 3
\* most token streams pushed while one template is parsed
MaxTokens == 3

\* the tag names of the parsed templates
ParserTags == {"div", "span", "br", "img"}

\* crate::parser::is_self_closing: membership in the void-tag set
parser_is_self_closing(tag) ==
    tag \in {"area", "base", "br", "col", "hr", "img", "input", "link", "meta",
             "param", "command", "keygen", "source"}

\* `quote_spanned! {close_span=> { compile_error!(#error); }}`
compile_error(error, close_span) ==
    [kind |-> "compile_error", error |-> error, span |-> close_span]

SelfClosingError(close) ==
    close \o " is a self closing tag. Try \"<" \o close \o ">\" or \"<"
          \o close \o " />\""

WrongClosingError(close, last_open_tag) ==
    "Wrong closing tag. Try changing \"" \o close \o "\" into \""
          \o last_open_tag \o "\""

\* a parser that goes on to the open-tag stack after rejecting a void tag
parse_close_tag_NoReturn(stack, toks, name) ==
    LET toks1 == IF parser_is_self_closing(name)
                 THEN Append(toks, compile_error(SelfClosingError(name), name))
                 ELSE toks
    IN  IF stack = <<>>
        THEN [parent_stack |-> stack, tokens |-> toks1, panic |-> TRUE]
        ELSE LET last_open_tag == stack[Len(stack)][2] IN
             [parent_stack |-> SubSeq(stack, 1, Len(stack) - 1),
              tokens |-> IF last_open_tag # name
                         THEN Append(toks1,
                                  compile_error(WrongClosingError(name, last_open_tag), name))
                         ELSE toks1,
              panic |-> FALSE]

\* HtmlParser::parse_close_tag
parse_close_tag(stack, toks, name) ==
    IF parser_is_self_closing(name)
    THEN [parent_stack |-> stack,
          tokens |-> Append(toks, compile_error(SelfClosingError(name), name)),
          panic |-> FALSE]
    ELSE IF stack = <<>>
    THEN [parent_stack |-> stack, tokens |-> toks, panic |-> TRUE]
    ELSE LET last_open_tag == stack[Len(stack)][2] IN
         [parent_stack |-> SubSeq(stack, 1, Len(stack) - 1),
          tokens |-> IF last_open_tag # name
                     THEN Append(toks,
                              compile_error(WrongClosingError(name, last_open_tag), name))
                     ELSE toks,
          panic |-> FALSE]

\* an opening tag: one token stream builds the node, and a tag that may have
\* children becomes the innermost open tag
parse_open_tag(name) ==
    /\ pc \in {"start", "parsing"}
    /\ Len(tokens) < MaxTokens
    /\ Len(parent_stack) < MaxOpen
    /\ tokens' = Append(tokens, [kind |-> "node", error |-> "", span |-> name])
    /\ parent_stack' = IF parser_is_self_closing(name) THEN parent_stack
                       ELSE Append(parent_stack,
                                <<"node_" \o ToString(Len(tokens)), name>>)
    /\ close_tag' = ""
    /\ pc' = "parsing"
    /\ UNCHANGED <<dom, root_node, vcur, vnew, from_diff, patches, pi,
                   element_nodes_to_patch, text_nodes_to_patch, nodes_to_find,
                   ELEM_UNIQUE_ID, build, active_closures, created, issued,
                   prior, wanted, formatter, markup>>

\* Tag::Close met in the template
CloseTag(name) ==
    /\ pc \in {"start", "parsing"}
    /\ Len(tokens) < MaxTokens
    /\ LET P == parse_close_tag(parent_stack, tokens, name) IN
       /\ parent_stack' = P.parent_stack
       /\ tokens' = P.tokens
       /\ pc' = IF P.panic THEN "panicked" ELSE "parsing"
    /\ close_tag' = name
    /\ UNCHANGED <<dom, root_node, vcur, vnew, from_diff, patches, pi,
                   element_nodes_to_patch, text_nodes_to_patch, nodes_to_find,
                   ELEM_UNIQUE_ID, build, active_closures, created, issued,
                   prior, wanted, formatter, markup>>

NextParse ==
    \/ \E name \in ParserTags : parse_open_tag(name)
    \/ \E name \in ParserTags : CloseTag(name)

SpecParse == Init /\ [][NextParse]_vars

----------------------------------------------------------------------------
(* Reading the live document *)

TypesOf(d, s) == [i \in 1..Len(s) |-> d[s[i]].type]

\* the children of a live node that are not separator comments
NonMarker(d, n) ==
    LET Keep(c) == d[c].type # "comment" IN SelectSeq(d[n].children, Keep)

LiveElements(d) == {n \in 1..Len(d) : n # Body /\ d[n].type = "element"}

\* the virtual node a live node was materialised from
VOf(v, d, n) == VNodeAt(v, d[n].src)

Materialised == pc \in {"created", "found"}

----------------------------------------------------------------------------
(* Claims on materialisation *)

\* C6: create_element_node puts exactly one marker between the live
\* counterparts of every two consecutive Text children and no marker anywhere
\* else; the non-marker live children follow the order of the virtual children.
C6_SeparatorPlacement ==
    Materialised =>
        \A n \in LiveElements(dom) :
            LET v == VOf(vcur, dom, n)
                kids == dom[n].children
                real == NonMarker(dom, n)
            IN  /\ Len(real) = Len(v.children)
                /\ \A j \in 1..Len(real) :
                      /\ dom[real[j]].type =
                            (IF v.children[j].kind = "Text" THEN "text" ELSE "element")
                      /\ dom[real[j]].text = v.children[j].text
                      /\ dom[real[j]].tag = v.children[j].tag
                /\ \A p \in 1..Len(kids) :
                      dom[kids[p]].type = "comment" =>
                          /\ 1 < p /\ p < Len(kids)
                          /\ dom[kids[p - 1]].type = "text"
                          /\ dom[kids[p + 1]].type = "text"
                /\ \A p \in 1..(Len(kids) - 1) :
                      ~(dom[kids[p]].type = "text" /\ dom[kids[p + 1]].type = "text")

C6_Witness ==
    /\ pc = "created"
    /\ vcur.kind = "Element"
    /\ vcur.children = <<VText("a"), VText("b"), SpanClick>>
    /\ TypesOf(dom, dom[root_node].children) = <<"text", "comment", "text", "element">>

\* the key of the handler map a tagged live element is registered under
KeyOf(closures, d, n) ==
    {k \in DOMAIN closures :
        "data-vdom-id" \in DOMAIN d[n].attrs
        /\ d[n].attrs["data-vdom-id"] = to_string(k)}

\* C8: the handler map returned by create_element_node has one key per element
\* of the subtree that carries handlers, at every depth; that element is tagged
\* data-vdom-id with the key, and the entry holds one resource per handler.
\* Elements without handlers get no tag and no entry.
C8_HandlerMap ==
    Materialised =>
        LET H == {n \in LiveElements(dom) : CarriesHandlers(VOf(vcur, dom, n))}
            cl == created.closures
        IN  /\ \A n \in H :
                  LET v == VOf(vcur, dom, n) IN
                  /\ Cardinality(KeyOf(cl, dom, n)) = 1
                  /\ \A k \in KeyOf(cl, dom, n) :
                        /\ BagCount(cl[k]) = Cardinality(DOMAIN v.events)
                        /\ DOMAIN cl[k] = Range(v.events)
                        /\ \A c \in DOMAIN cl[k] :
                              cl[k][c] = Cardinality({e \in DOMAIN v.events : v.events[e] = c})
            /\ \A n, m \in H : n # m => KeyOf(cl, dom, n) # KeyOf(cl, dom, m)
            /\ DOMAIN cl = UNION {KeyOf(cl, dom, n) : n \in H}
            /\ \A n \in LiveElements(dom) \ H :
                  /\ "data-vdom-id" \notin DOMAIN dom[n].attrs
                  /\ dom[n].listeners = {}

C8_Witness ==
    /\ pc = "created"
    /\ Cardinality(DOMAIN created.closures) = 2
    /\ \E n \in LiveElements(dom) :
          /\ "data-vdom-id" \in DOMAIN dom[n].attrs
          /\ dom[n].parent # root_node
          /\ dom[n].parent # 0
    /\ \E n \in LiveElements(dom) :
          /\ "data-vdom-id" \in DOMAIN dom[n].attrs
          /\ dom[n].parent = root_node

\* C4: find_nodes records, for each wanted index that exists in the tree, the
\* live node materialised from the virtual node of that pre-order index, as an
\* element target or a text target by its kind; a marker is never a target.
C4_FindNodesIndex ==
    pc = "found" =>
        \A i \in wanted :
            LET v == VNodeAt(vcur, i) IN
            CASE v.kind = "Element" ->
                    /\ i \in DOMAIN element_nodes_to_patch
                    /\ i \notin DOMAIN text_nodes_to_patch
                    /\ dom[element_nodes_to_patch[i]].src = i
                    /\ dom[element_nodes_to_patch[i]].type = "element"
              [] v.kind = "Text" ->
                    /\ i \in DOMAIN text_nodes_to_patch
                    /\ i \notin DOMAIN element_nodes_to_patch
                    /\ dom[text_nodes_to_patch[i]].src = i
                    /\ dom[text_nodes_to_patch[i]].type = "text"
              [] OTHER ->
                    /\ i \notin DOMAIN element_nodes_to_patch
                    /\ i \notin DOMAIN text_nodes_to_patch

C4_Witness ==
    /\ pc = "found"
    /\ \E i \in DOMAIN text_nodes_to_patch :
          LET n == text_nodes_to_patch[i]
              sibs == dom[dom[n].parent].children
          IN  /\ dom[n].parent # 0
              /\ IndexOf(sibs, n) > 1
              /\ dom[sibs[IndexOf(sibs, n) - 1]].type = "comment"
    /\ \E i \in DOMAIN element_nodes_to_patch : i > 0
    /\ \E i \in wanted : i >= VSize(vcur)

\* C9: the identifiers handed out are strictly increasing, so none is handed
\* out twice, also when the counter reaches the top of its 32-bit range.
C9_StrictlyIncreasing ==
    \A k \in 1..Len(issued) :
        Less32(IF k = 1 THEN prior ELSE issued[k - 1], issued[k])

----------------------------------------------------------------------------
(* Claims on the patch application engine *)

\* the node mounted in the document
LiveRoot == dom[Body].children[1]

RECURSIVE InDocument(_, _)
InDocument(d, n) ==
    IF n = Body THEN TRUE
    ELSE IF d[n].parent = 0 THEN FALSE
    ELSE InDocument(d, d[n].parent)

RECURSIVE LiveShape(_, _)
\* tag, attributes, text and child structure of a live subtree; markers and
\* the identifier tag of the handler registry are left out
LiveShape(d, n) ==
    LET real == NonMarker(d, n) IN
    [type |-> d[n].type, tag |-> d[n].tag, text |-> d[n].text,
     attrs |-> [a \in (DOMAIN d[n].attrs) \ {"data-vdom-id"} |-> d[n].attrs[a]],
     children |-> [j \in 1..Len(real) |-> LiveShape(d, real[j])]]

\* the shape of the live tree materialised directly from a virtual tree
ShapeOf(v) ==
    LET R == create_dom_node(v, InitDom, U32(0, 0)) IN LiveShape(R.dom, R.node)

CycleEnded == pc \in {"done", "aborted"}

\* C1: applying diff(old, new) with patch() to the live document materialised
\* from old completes and leaves a live document structurally equal to the
\* one materialised from new.
C1_Convergence ==
    (from_diff /\ CycleEnded) =>
        /\ pc = "done"
        /\ LiveShape(dom, LiveRoot) = ShapeOf(vnew)

\* C2: TruncateChildren(index, k) on an element target with n >= k non-marker
\* children leaves exactly the first k of them, whatever markers lie between.
C2_TruncateKeepsFirstK ==
    [][(/\ pc = "patching"
        /\ patches[pi].kind = "TruncateChildren"
        /\ patches[pi].node_idx \in DOMAIN element_nodes_to_patch
        /\ pi' = pi + 1
        /\ Len(NonMarker(dom, element_nodes_to_patch[patches[pi].node_idx]))
              >= patches[pi].num)
       => NonMarker(dom', element_nodes_to_patch[patches[pi].node_idx])
            = SubSeq(NonMarker(dom, element_nodes_to_patch[patches[pi].node_idx]),
                     1, patches[pi].num)]_vars

RECURSIVE KindChanges(_, _, _, _)
\* the aligned positions where one tree holds a Text and the other an Element:
\* structural index in old, path of child positions, the two subtrees
KindChanges(old, new, idx, path) ==
    IF old.kind # new.kind
    THEN {[idx |-> idx, path |-> path, old |-> old, new |-> new]}
    ELSE IF old.kind = "Text" \/ old.tag # new.tag THEN {}
    ELSE LET RECURSIVE Kids(_, _)
             Kids(i, at) ==
                 IF i > Min(Len(old.children), Len(new.children)) THEN {}
                 ELSE KindChanges(old.children[i], new.children[i], at,
                                  Append(path, i))
                      \cup Kids(i + 1, at + VSize(old.children[i]))
         IN Kids(1, idx + 1)

RECURSIVE LiveAt(_, _, _)
\* the live node reached from n along a path of non-marker child positions
LiveAt(d, n, path) ==
    IF path = <<>> THEN n
    ELSE LiveAt(d, NonMarker(d, n)[Head(path)], Tail(path))

\* C3: where old is a Text and new an Element, or the reverse, the diff emits
\* a single Replace at that index with nothing beneath it, and patch()
\* substitutes the materialised replacement for the live node.
C3_KindChangeReplaced ==
    (from_diff /\ CycleEnded) =>
        \A c \in KindChanges(vcur, vnew, 0, <<>>) :
            /\ {i \in 1..Len(patches) :
                    /\ patches[i].node_idx >= c.idx
                    /\ patches[i].node_idx < c.idx + VSize(c.old)}
                 = {i \in 1..Len(patches) : patches[i] = Replace(c.idx, c.new)}
            /\ Cardinality({i \in 1..Len(patches) :
                                patches[i] = Replace(c.idx, c.new)}) = 1
            /\ pc = "done"
            /\ LiveShape(dom, LiveAt(dom, LiveRoot, c.path)) = ShapeOf(c.new)

\* C5: in no reachable live document are two text nodes immediate siblings.
C5_NoAdjacentText ==
    pc \in {"mounted", "patching", "done", "aborted"} =>
        \A n \in LiveElements(dom) :
            InDocument(dom, n) =>
                \A p \in 1..(Len(dom[n].children) - 1) :
                    ~(/\ dom[dom[n].children[p]].type = "text"
                      /\ dom[dom[n].children[p + 1]].type = "text")

\* C7: after an apply cycle every element of the live document that carries
\* handlers has a registry entry under its identifier holding them.
C7_HandlersRegistered ==
    pc = "done" =>
        \A n \in LiveElements(dom) :
            (InDocument(dom, n) /\ dom[n].listeners # {}) =>
                \E k \in KeyOf(active_closures, dom, n) :
                    DOMAIN active_closures[k] = {l[2] : l \in dom[n].listeners}

\* the kind of live node a structural index of the mounted document resolves to
TargetKind(i) == VNodeAt(vcur, i).kind

\* a patch patch() cannot route: no target, or a target of the other kind
Misrouted(p) ==
    \/ TargetKind(p.node_idx) = "none"
    \/ TargetKind(p.node_idx) = "Element" /\ p.kind = "ChangeText"
    \/ TargetKind(p.node_idx) = "Text" /\ p.kind # "ChangeText"

\* where a run of patch() stands with respect to the patches it has passed
RoutedSoFar ==
    pc \in {"patching", "done", "aborted"} =>
        /\ \A j \in 1..(pi - 1) : ~Misrouted(patches[j])
        /\ pc = "aborted" => Misrouted(patches[pi])
        /\ pc = "patching" => pi <= Len(patches)
        /\ pc = "done" => pi = Len(patches) + 1

\* C10: patch() applies the patches in order and aborts at the first patch
\* that has no target or a target of the other kind; what the patches before
\* it did stays in the live document.
C10_AbortAtFirstMisrouted ==
    [][/\ RoutedSoFar'
       /\ pc = "patching" =>
            /\ Misrouted(patches[pi]) => (pc' = "aborted" /\ dom' = dom /\ pi' = pi)
            /\ ~Misrouted(patches[pi]) =>
                  (pc' \in {"patching", "done"} /\ pi' = pi + 1)
       /\ pc = "aborted" => (dom' = dom /\ pc' = "aborted")]_vars

C10_Witness ==
    /\ pc = "aborted"
    /\ pi = 2
    /\ patches[1].kind = "Replace"
    /\ TargetKind(patches[2].node_idx) = "none"
    /\ dom[element_nodes_to_patch[patches[1].node_idx]].parent = 0

----------------------------------------------------------------------------
(* Serialisation *)

\* the void tags as the specification lists them
VoidTags ==
    {"area", "base", "br", "col", "hr", "img", "input", "link", "meta",
     "param", "command", "keygen", "source"}

\* the pieces ` name="value"` of a property map
PropPieces(props) ==
    {" " \o k \o "=\"" \o props[k] \o "\"" : k \in DOMAIN props}

\* C11: the markup of an element is its opening tag (the tag, then one
\* name="value" piece per property), then the markup of each child in order,
\* then the closing marker </tag> exactly when the tag is not a void tag: a
\* void element never ends with its closing marker, a non-void element
\* always does, and one with neither properties nor children is <tag></tag>.
C11_ClosingMarkerIffNotVoid ==
    (pc = "displayed" /\ vcur.kind = "Element") =>
        LET np == Cardinality(DOMAIN vcur.props)
            kids == Len(vcur.children)
            n == Len(formatter)
            close == "</" \o vcur.tag \o ">"
        IN  /\ markup = Concat(formatter)
            /\ n >= np + kids + 2
            /\ formatter[1] = "<" \o vcur.tag
            /\ {formatter[i] : i \in 2..(np + 1)} = PropPieces(vcur.props)
            /\ formatter[np + 2] = ">"
            /\ \A i \in 1..kids :
                \E order \in PropOrders :
                    formatter[np + 2 + i] = node_to_string(vcur.children[i], order)
            /\ vcur.tag \in VoidTags =>
                    n = np + kids + 2 /\ formatter[n] # close
            /\ vcur.tag \notin VoidTags =>
                    n = np + kids + 3 /\ formatter[n] = close
            /\ (vcur.tag \notin VoidTags /\ np = 0 /\ kids = 0) =>
                    markup = "<" \o vcur.tag \o "></" \o vcur.tag \o ">"
            /\ (vcur.tag = "br" /\ np = 0 /\ kids = 0) => markup = "<br>"

\* a void element with a non-void child has been serialised
C11_Witness ==
    /\ pc = "displayed"
    /\ vcur = VElement("br", EmptyMap, EmptyMap,
                  <<VText("a"), VElement("div", EmptyMap, EmptyMap, <<>>)>>)
    /\ markup = "<br>a<div></div>"

----------------------------------------------------------------------------
(* The wanted-index set of the live traversal *)

\* the wanted indices that find_nodes recorded a live node for
Recorded == DOMAIN element_nodes_to_patch \cup DOMAIN text_nodes_to_patch

\* C12: when find_nodes ends, no index it recorded a live node for, element
\* or text, is left in the wanted-index set; hence when every wanted index
\* exists in the live document the set is empty at the end.
C12_WantedSetEmptied ==
    pc = "found" =>
        /\ nodes_to_find \cap Recorded = {}
        /\ (\A i \in wanted : VNodeAt(vcur, i).kind # "none") => nodes_to_find = {}

----------------------------------------------------------------------------
(* Closing tags *)

\* the step appended exactly one compile-error token
OneErrorPushed ==
    /\ Len(tokens') = Len(tokens) + 1
    /\ SubSeq(tokens', 1, Len(tokens)) = tokens
    /\ tokens'[Len(tokens')].kind = "compile_error"

\* C13: a closing tag with a void name appends exactly one compile-error
\* token and leaves the open-tag stack as it was; one with a non-void name,
\* met with a non-empty stack, pops exactly one entry and appends a
\* compile-error token exactly when the popped tag's name differs from it.
C13_CloseTag ==
    [][close_tag' # "" =>
        IF close_tag' \in VoidTags
        THEN OneErrorPushed /\ parent_stack' = parent_stack
        ELSE parent_stack # <<>> =>
                /\ parent_stack' = SubSeq(parent_stack, 1, Len(parent_stack) - 1)
                /\ IF parent_stack[Len(parent_stack)][2] # close_tag'
                   THEN OneErrorPushed
                   ELSE tokens' = tokens]_vars

\* inside <span>, </br> was rejected and then </div> closed the span
C13_Witness ==
    /\ pc = "parsing"
    /\ close_tag = "div"
    /\ parent_stack = <<>>
    /\ Len(tokens) = 3
    /\ tokens[1].kind = "node" /\ tokens[1].span = "span"
    /\ tokens[2].kind = "compile_error" /\ tokens[2].span = "br"
    /\ tokens[3] =
         compile_error("Wrong closing tag. Try changing \"div\" into \"span\"", "div")

====
